---- MODULE Spec2Model ----
(***************************************************************************)
(* Model of chernov.arseniy/P5/main.cpp: the shapes Rectangle, Polygon and *)
(* Bubble behind the Shape interface, the aggregate operations             *)
(* scaleByPoint and getTotalFrameRect, the ownership of a Polygon's vertex *)
(* buffer, and the input loop of main.                                     *)
(*                                                                         *)
(* A double is modelled as an exact rational <<n, d>> (d > 0, lowest       *)
(* terms), so that k = 1/2, the centroid's division and width / 2 are      *)
(* computed as the code computes them, without rounding.                   *)
(***************************************************************************)
EXTENDS Integers, Sequences, FiniteSets, TLC

VARIABLES shapes, op, frame, positive, steps,
          polys, heap, crashed,
          cin, loc, cerr, pc

vars == <<shapes, op, frame, positive, steps,
          polys, heap, crashed,
          cin, loc, cerr, pc>>

shapeVars == <<shapes, op, frame, positive, steps>>
polyVars == <<polys, heap, crashed>>
mainVars == <<cin, loc, cerr, pc>>

----------------------------------------------------------------------------
(* Bounds of the model. *)

\* the largest number of shapes in a collection
MaxShapes == 2
\* the largest number of calls made on a collection
MaxSteps == 2
\* the number of Polygon objects
MaxPolys == 2
\* the largest number of calls made on the Polygon objects
MaxPolySteps == 4
\* the largest number of tokens of the input stream
MaxTokens == 6

----------------------------------------------------------------------------
(* double, as an exact rational *)

IAbs(n) == IF n < 0 THEN -n ELSE n

RECURSIVE Gcd(_, _)
Gcd(a, b) == IF b = 0 THEN a ELSE Gcd(b, a % b)

\* n / d in lowest terms with a positive denominator (d # 0)
Q(n, d) ==
  LET s == IF d < 0 THEN -1 ELSE 1
      g == Gcd(IAbs(n), IAbs(d))
  IN <<(s * n) \div g, (s * d) \div g>>

R(n) == <<n, 1>>

RAdd(a, b) == Q(a[1] * b[2] + b[1] * a[2], a[2] * b[2])
RSub(a, b) == Q(a[1] * b[2] - b[1] * a[2], a[2] * b[2])
RMul(a, b) == Q(a[1] * b[1], a[2] * b[2])
\* b # 0
RDiv(a, b) == Q(a[1] * b[2], a[2] * b[1])
RLt(a, b) == a[1] * b[2] < b[1] * a[2]
RLe(a, b) == a[1] * b[2] <= b[1] * a[2]
RAbs(a) == <<IAbs(a[1]), a[2]>>
RMin(a, b) == IF RLt(b, a) THEN b ELSE a
RMax(a, b) == IF RLt(a, b) THEN b ELSE a

Zero == R(0)
Two == R(2)
Half == Q(1, 2)

----------------------------------------------------------------------------
(* point_t, rectangle_t *)

point_t(px, py) == [x |-> px, y |-> py]
Pt(a, b) == point_t(R(a), R(b))
rectangle_t(w, h, p) == [width |-> w, height |-> h, pos |-> p]

NoPoint == Pt(0, 0)

----------------------------------------------------------------------------
(* The shapes.  One record holds the fields of all three variants; the     *)
(* fields a variant does not have keep a fixed filler value.               *)

Shape(kind, side_x, side_y, center, verts, radius, anchor) ==
  [kind |-> kind, side_x |-> side_x, side_y |-> side_y, center |-> center,
   verts |-> verts, count |-> Len(verts), radius |-> radius, anchor |-> anchor]

(* ---- Rectangle ---- *)

\* faulty variant: the sides are rejected only when both are non-positive
Rectangle_throws_both(a, b, o) == RLe(a, Zero) /\ RLe(b, Zero)

\* the constructor's check: side_x <= 0 || side_y <= 0
Rectangle_throws(a, b, o) == RLe(a, Zero) \/ RLe(b, Zero)

Rectangle(a, b, o) == Shape("Rectangle", a, b, o, <<>>, Zero, NoPoint)

Rectangle_getArea(s) == RMul(s.side_x, s.side_y)

Rectangle_getFrameRect(s) == rectangle_t(s.side_x, s.side_y, s.center)

Rectangle_move_p(s, p) == [s EXCEPT !.center = p]

Rectangle_move(s, dx, dy) ==
  Rectangle_move_p(s, point_t(RAdd(s.center.x, dx), RAdd(s.center.y, dy)))

\* faulty variant: only side_x is scaled
Rectangle_scale_x_only(s, k) == [s EXCEPT !.side_x = RMul(s.side_x, k)]

Rectangle_scale(s, k) ==
  [s EXCEPT !.side_x = RMul(s.side_x, k), !.side_y = RMul(s.side_y, k)]

(* ---- Polygon: the methods, on the content of the vertex buffer ---- *)

\* (i + 1) % count, for the 1-based index of a sequence
NextIdx(i, count) == (i % count) + 1

RECURSIVE SignedAreaSum(_, _)
\* the loop of getSignedArea over the first n vertices
SignedAreaSum(verts, n) ==
  IF n = 0 THEN Zero
  ELSE LET j == NextIdx(n, Len(verts))
       IN RSub(RAdd(SignedAreaSum(verts, n - 1),
                    RMul(verts[n].x, verts[j].y)),
               RMul(verts[n].y, verts[j].x))

Polygon_getSignedArea(verts) == RMul(SignedAreaSum(verts, Len(verts)), Half)

Polygon_getArea(s) == RAbs(Polygon_getSignedArea(s.verts))

RECURSIVE CentroidSum(_, _)
\* the loop of getCentroid over the first n vertices: <<cx, cy>>
CentroidSum(verts, n) ==
  IF n = 0 THEN <<Zero, Zero>>
  ELSE LET j == NextIdx(n, Len(verts))
           x0 == verts[n].x
           y0 == verts[n].y
           x1 == verts[j].x
           y1 == verts[j].y
           cross == RSub(RMul(x0, y1), RMul(x1, y0))
           c == CentroidSum(verts, n - 1)
       IN <<RAdd(c[1], RMul(RAdd(x0, x1), cross)),
            RAdd(c[2], RMul(RAdd(y0, y1), cross))>>

\* the signed area is not zero (the division is by 6 * signed_area)
Polygon_getCentroid(verts) ==
  LET c == CentroidSum(verts, Len(verts))
      signed_area == Polygon_getSignedArea(verts)
  IN point_t(RDiv(c[1], RMul(R(6), signed_area)),
             RDiv(c[2], RMul(R(6), signed_area)))

\* the constructor's check: count < 3
Polygon_throws(points) == Len(points) < 3

Polygon(points) ==
  Shape("Polygon", Zero, Zero, Polygon_getCentroid(points), points, Zero, NoPoint)

RECURSIVE FrameLoop(_, _)
\* the loop of Polygon::getFrameRect over the first n vertices:
\* <<min_x, min_y, max_x, max_y>>
FrameLoop(verts, n) ==
  IF n = 0 THEN <<verts[1].x, verts[1].y, verts[1].x, verts[1].y>>
  ELSE LET m == FrameLoop(verts, n - 1)
       IN <<RMin(m[1], verts[n].x), RMin(m[2], verts[n].y),
            RMax(m[3], verts[n].x), RMax(m[4], verts[n].y)>>

Polygon_getFrameRect(s) ==
  LET m == FrameLoop(s.verts, Len(s.verts))
      width == RSub(m[3], m[1])
      height == RSub(m[4], m[2])
  IN rectangle_t(width, height,
                 point_t(RAdd(m[1], RDiv(width, Two)), RAdd(m[2], RDiv(height, Two))))

Polygon_move(s, dx, dy) ==
  [s EXCEPT !.verts = [i \in 1..Len(s.verts) |->
                         point_t(RAdd(s.verts[i].x, dx), RAdd(s.verts[i].y, dy))],
            !.center = point_t(RAdd(s.center.x, dx), RAdd(s.center.y, dy))]

Polygon_move_p(s, p) ==
  Polygon_move(s, RSub(p.x, s.center.x), RSub(p.y, s.center.y))

Polygon_scale(s, k) ==
  [s EXCEPT !.verts = [i \in 1..Len(s.verts) |->
      point_t(RAdd(s.center.x, RMul(k, RSub(s.verts[i].x, s.center.x))),
              RAdd(s.center.y, RMul(k, RSub(s.verts[i].y, s.center.y))))]]

(* ---- Bubble ---- *)

Dist2(o, a) ==
  RAdd(RMul(RSub(o.x, a.x), RSub(o.x, a.x)), RMul(RSub(o.y, a.y), RSub(o.y, a.y)))

\* the constructor's three checks, in the order of the code
Bubble_throws(r, o, a) ==
  \/ RLt(RMul(r, r), Dist2(o, a))
  \/ (o.x = a.x /\ o.y = a.y)
  \/ RLe(r, Zero)

Bubble(r, o, a) == Shape("Bubble", Zero, Zero, o, <<>>, r, a)

\* the coefficient of PI in the area: PI * radius * radius
Bubble_getArea(s) == RMul(s.radius, s.radius)

Bubble_getFrameRect(s) ==
  LET size == RMul(Two, s.radius) IN rectangle_t(size, size, s.center)

Bubble_move(s, dx, dy) ==
  [s EXCEPT !.anchor = point_t(RAdd(s.anchor.x, dx), RAdd(s.anchor.y, dy)),
            !.center = point_t(RAdd(s.center.x, dx), RAdd(s.center.y, dy))]

Bubble_move_p(s, p) ==
  Bubble_move(s, RSub(p.x, s.anchor.x), RSub(p.y, s.anchor.y))

\* faulty variant: the center moves and the radius stays
Bubble_scale_center_only(s, k) ==
  LET dx == RSub(s.center.x, s.anchor.x)
      dy == RSub(s.center.y, s.anchor.y)
  IN [s EXCEPT !.center = point_t(RAdd(s.anchor.x, RMul(k, dx)),
                                  RAdd(s.anchor.y, RMul(k, dy)))]

Bubble_scale(s, k) ==
  LET dx == RSub(s.center.x, s.anchor.x)
      dy == RSub(s.center.y, s.anchor.y)
  IN [s EXCEPT !.radius = RMul(s.radius, k),
               !.center = point_t(RAdd(s.anchor.x, RMul(k, dx)),
                                  RAdd(s.anchor.y, RMul(k, dy)))]

(* ---- Shape: virtual dispatch ---- *)

\* an area is rat + pi * PI: PI = acos(-1.0) is kept symbolic
getArea(s) ==
  CASE s.kind = "Rectangle" -> [rat |-> Rectangle_getArea(s), pi |-> Zero]
    [] s.kind = "Polygon" -> [rat |-> Polygon_getArea(s), pi |-> Zero]
    [] s.kind = "Bubble" -> [rat |-> Zero, pi |-> Bubble_getArea(s)]

getFrameRect(s) ==
  CASE s.kind = "Rectangle" -> Rectangle_getFrameRect(s)
    [] s.kind = "Polygon" -> Polygon_getFrameRect(s)
    [] s.kind = "Bubble" -> Bubble_getFrameRect(s)

move_p(s, p) ==
  CASE s.kind = "Rectangle" -> Rectangle_move_p(s, p)
    [] s.kind = "Polygon" -> Polygon_move_p(s, p)
    [] s.kind = "Bubble" -> Bubble_move_p(s, p)

move(s, dx, dy) ==
  CASE s.kind = "Rectangle" -> Rectangle_move(s, dx, dy)
    [] s.kind = "Polygon" -> Polygon_move(s, dx, dy)
    [] s.kind = "Bubble" -> Bubble_move(s, dx, dy)

scale(s, k) ==
  CASE s.kind = "Rectangle" -> Rectangle_scale(s, k)
    [] s.kind = "Polygon" -> Polygon_scale(s, k)
    [] s.kind = "Bubble" -> Bubble_scale(s, k)

----------------------------------------------------------------------------
(* The aggregate operations *)

\* faulty variant: only a negative k is rejected
scaleByPoint_throws_negative(k) == RLt(k, Zero)

\* the check of scaleByPoint: k <= 0
scaleByPoint_throws(k) == RLe(k, Zero)

\* faulty variant: the displacement is not multiplied by k
scaleByPoint_body_unscaled(s, k, p) ==
  LET first_pos == getFrameRect(s).pos
      moved == move_p(s, p)
      second_pos == getFrameRect(moved).pos
      dx == RSub(first_pos.x, second_pos.x)
      dy == RSub(first_pos.y, second_pos.y)
  IN scale(move(moved, dx, dy), k)

\* the body of the loop of scaleByPoint, for one shape
scaleByPoint_body(s, k, p) ==
  LET first_pos == getFrameRect(s).pos
      moved == move_p(s, p)
      second_pos == getFrameRect(moved).pos
      dx == RMul(k, RSub(first_pos.x, second_pos.x))
      dy == RMul(k, RSub(first_pos.y, second_pos.y))
  IN scale(move(moved, dx, dy), k)

\* the loop of scaleByPoint (k > 0)
scaleByPoint(shs, k, p) ==
  [i \in 1..Len(shs) |-> scaleByPoint_body(shs[i], k, p)]

RECURSIVE TotalLoop(_, _)
\* getTotalFrameRect after the first n shapes: <<min_x, min_y, max_x, max_y>>
TotalLoop(shs, n) ==
  LET f == getFrameRect(shs[n])
  IN IF n = 1
     THEN LET min_x == RSub(f.pos.x, RDiv(f.width, Two))
              min_y == RSub(f.pos.y, RDiv(f.height, Two))
          IN <<min_x, min_y, RAdd(min_x, f.width), RAdd(min_y, f.height)>>
     ELSE LET m == TotalLoop(shs, n - 1)
          IN <<RMin(m[1], RSub(f.pos.x, RDiv(f.width, Two))),
               RMin(m[2], RSub(f.pos.y, RDiv(f.height, Two))),
               RMax(m[3], RAdd(f.pos.x, RDiv(f.width, Two))),
               RMax(m[4], RAdd(f.pos.y, RDiv(f.height, Two)))>>

\* faulty variant: the loop stops one shape early
getTotalFrameRect_short(shs) ==
  LET m == TotalLoop(shs, IF Len(shs) > 1 THEN Len(shs) - 1 ELSE 1)
      width == RSub(m[3], m[1])
      height == RSub(m[4], m[2])
  IN rectangle_t(width, height,
                 point_t(RAdd(m[1], RDiv(width, Two)), RAdd(m[2], RDiv(height, Two))))

\* count > 0: the code reads shapes[0] unconditionally
getTotalFrameRect(shs) ==
  LET m == TotalLoop(shs, Len(shs))
      width == RSub(m[3], m[1])
      height == RSub(m[4], m[2])
  IN rectangle_t(width, height,
                 point_t(RAdd(m[1], RDiv(width, Two)), RAdd(m[2], RDiv(height, Two))))

----------------------------------------------------------------------------
(* Inputs: constructor arguments, points, deltas and factors *)

RectangleArgs ==
  { <<R(2), R(3), Pt(1, 2)>>, <<R(0), R(3), Pt(0, 0)>>, <<R(-1), R(1), Pt(0, 0)>> }

PolygonArgs ==
  { <<Pt(0, 0), Pt(0, 3), Pt(4, 0)>>,
    <<Pt(0, 0), Pt(1, 0), Pt(1, 1), Pt(0, 1)>>,
    <<Pt(0, 0), Pt(1, 1)>> }

BubbleArgs ==
  { <<R(5), Pt(0, 0), Pt(3, 4)>>, <<R(1), Pt(0, 0), Pt(2, 2)>>, <<R(2), Pt(1, 1), Pt(1, 1)>>,
    <<R(-5), Pt(0, 0), Pt(3, 4)>>, <<R(0), Pt(0, 0), Pt(0, 0)>> }

\* the shapes whose construction succeeds
Constructed ==
  {Rectangle(a[1], a[2], a[3]) :
     a \in {b \in RectangleArgs : ~Rectangle_throws(b[1], b[2], b[3])}}
  \cup {Polygon(a) : a \in {b \in PolygonArgs : ~Polygon_throws(b)}}
  \cup {Bubble(a[1], a[2], a[3]) :
     a \in {b \in BubbleArgs : ~Bubble_throws(b[1], b[2], b[3])}}

Points == {Pt(3, -2)}
Deltas == {<<R(-1), Half>>}
Factors == {R(-1), Half, R(2)}
PointFactors == {Zero, R(-1), Half, R(2)}

----------------------------------------------------------------------------
(* The calls on a collection of shapes.  op records the last call and      *)
(* whether it threw; frame holds what the last getTotalFrameRect returned; *)
(* positive says that every scale so far had k > 0.                        *)

\* i: the shape or Polygon the call is made on; j: the source Polygon of a copy
\* or move, or the buffer a constructor allocated
Call(name, i, j, k, p, threw) ==
  [name |-> name, i |-> i, j |-> j, k |-> k, p |-> p, threw |-> threw]

NoCall == Call("none", 0, 0, Zero, NoPoint, FALSE)
NoFrame == rectangle_t(Zero, Zero, NoPoint)

PolyIdle ==
  /\ polys = <<>>
  /\ heap = <<>>
  /\ crashed = FALSE

MainIdle ==
  /\ cin = <<>>
  /\ loc = <<>>
  /\ cerr = <<>>
  /\ pc = "none"

Init ==
  /\ shapes \in UNION {[1..n -> Constructed] : n \in 1..MaxShapes}
  /\ op = NoCall
  /\ frame = NoFrame
  /\ positive = TRUE
  /\ steps = 0
  /\ PolyIdle
  /\ MainIdle

MoveTo(i, p) ==
  /\ steps < MaxSteps
  /\ shapes' = [shapes EXCEPT ![i] = move_p(@, p)]
  /\ op' = Call("moveTo", i, 0, Zero, p, FALSE)
  /\ steps' = steps + 1
  /\ UNCHANGED <<frame, positive, polyVars, mainVars>>

MoveBy(i, d) ==
  /\ steps < MaxSteps
  /\ shapes' = [shapes EXCEPT ![i] = move(@, d[1], d[2])]
  /\ op' = Call("moveBy", i, 0, Zero, point_t(d[1], d[2]), FALSE)
  /\ steps' = steps + 1
  /\ UNCHANGED <<frame, positive, polyVars, mainVars>>

Scale(i, k) ==
  /\ steps < MaxSteps
  /\ shapes' = [shapes EXCEPT ![i] = scale(@, k)]
  /\ op' = Call("scale", i, 0, k, NoPoint, FALSE)
  /\ positive' = (positive /\ RLt(Zero, k))
  /\ steps' = steps + 1
  /\ UNCHANGED <<frame, polyVars, mainVars>>

ScaleByPoint(k, p) ==
  /\ steps < MaxSteps
  /\ IF scaleByPoint_throws(k)
     THEN /\ op' = Call("scaleByPoint", 0, 0, k, p, TRUE)
          /\ UNCHANGED shapes
     ELSE /\ op' = Call("scaleByPoint", 0, 0, k, p, FALSE)
          /\ shapes' = scaleByPoint(shapes, k, p)
  /\ positive' = (positive /\ (scaleByPoint_throws(k) \/ RLt(Zero, k)))
  /\ steps' = steps + 1
  /\ UNCHANGED <<frame, polyVars, mainVars>>

GetTotalFrameRect ==
  /\ steps < MaxSteps
  /\ frame' = getTotalFrameRect(shapes)
  /\ op' = Call("getTotalFrameRect", 0, 0, Zero, NoPoint, FALSE)
  /\ steps' = steps + 1
  /\ UNCHANGED <<shapes, positive, polyVars, mainVars>>

Next ==
  \/ \E i \in 1..Len(shapes), p \in Points : MoveTo(i, p)
  \/ \E i \in 1..Len(shapes), d \in Deltas : MoveBy(i, d)
  \/ \E i \in 1..Len(shapes), k \in Factors : Scale(i, k)
  \/ \E k \in PointFactors, p \in Points : ScaleByPoint(k, p)
  \/ GetTotalFrameRect

Spec == Init /\ [][Next]_vars

----------------------------------------------------------------------------
(* Properties of the calls on a collection (specification Spec) *)

\* the image of the point v under the scaling with center p and factor k
Image(v, k, p) ==
  point_t(RAdd(p.x, RMul(k, RSub(v.x, p.x))), RAdd(p.y, RMul(k, RSub(v.y, p.y))))

\* t is the image of the shape s under the scaling with center p and factor k
IsImage(s, t, k, p) ==
  /\ getFrameRect(t).pos = Image(getFrameRect(s).pos, k, p)
  /\ getFrameRect(t).width = RMul(k, getFrameRect(s).width)
  /\ getFrameRect(t).height = RMul(k, getFrameRect(s).height)
  /\ s.kind = "Polygon" =>
       /\ Len(t.verts) = Len(s.verts)
       /\ \A j \in 1..Len(s.verts) : t.verts[j] = Image(s.verts[j], k, p)
  /\ s.kind = "Bubble" =>
       /\ t.center = Image(s.center, k, p)
       /\ t.anchor = Image(s.anchor, k, p)

NonNegative(s) ==
  /\ RLe(Zero, getArea(s).rat)
  /\ RLe(Zero, getArea(s).pi)
  /\ RLe(Zero, getFrameRect(s).width)
  /\ RLe(Zero, getFrameRect(s).height)

SetMin(S) == CHOOSE a \in S : \A b \in S : RLe(a, b)
SetMax(S) == CHOOSE a \in S : \A b \in S : RLe(b, a)

Frames == {getFrameRect(shapes[i]) : i \in 1..Len(shapes)}
Left == SetMin({RSub(f.pos.x, RDiv(f.width, Two)) : f \in Frames})
Bottom == SetMin({RSub(f.pos.y, RDiv(f.height, Two)) : f \in Frames})
Right == SetMax({RAdd(f.pos.x, RDiv(f.width, Two)) : f \in Frames})
Top == SetMax({RAdd(f.pos.y, RDiv(f.height, Two)) : f \in Frames})

\* C1: scaleByPoint called with k <= 0 throws invalid_argument and leaves
\* every shape of the collection as it was before the call.
C1_RejectedScaleKeepsShapes ==
  [][(op'.name = "scaleByPoint" /\ RLe(op'.k, Zero))
       => (op'.threw /\ shapes' = shapes)]_vars

C1_Witness ==
  /\ op.name = "scaleByPoint"
  /\ op.k = Zero
  /\ op.threw
  /\ Len(shapes) = 2
  /\ steps = 2

\* C2: after scaleByPoint(shapes, k, p) with k > 0 every shape is the image of
\* its former self under the scaling with center p and factor k: the frame
\* position becomes p + k * (old - p), the frame width and height are
\* multiplied by k, every vertex of a Polygon and the center and anchor of a
\* Bubble are mapped the same way.
C2_ScaleByPointIsScalingAboutPivot ==
  [][(op'.name = "scaleByPoint" /\ ~op'.threw)
       => /\ Len(shapes') = Len(shapes)
          /\ \A i \in 1..Len(shapes) : IsImage(shapes[i], shapes'[i], op'.k, op'.p)]_vars

C2_Witness ==
  /\ op.name = "scaleByPoint"
  /\ ~op.threw
  /\ op.k = Half
  /\ steps = 2
  /\ \E i, j \in 1..Len(shapes) :
       shapes[i].kind = "Polygon" /\ shapes[j].kind = "Bubble"

C4_AsClaimed ==
  positive =>
    \A i \in 1..Len(shapes) :
      shapes[i].kind = "Bubble" =>
        /\ RLt(Zero, shapes[i].radius)
        /\ shapes[i].anchor # shapes[i].center
        /\ RLt(Dist2(shapes[i].center, shapes[i].anchor),
               RMul(shapes[i].radius, shapes[i].radius))

\* C4, amended: a constructed Bubble, and every state it reaches through
\* moveTo, moveBy and scale(k) with k > 0, has radius > 0, anchor # center and
\* the anchor inside or on the circle (squared distance <= radius squared).
C4_BubbleInvariant ==
  positive =>
    \A i \in 1..Len(shapes) :
      shapes[i].kind = "Bubble" =>
        /\ RLt(Zero, shapes[i].radius)
        /\ shapes[i].anchor # shapes[i].center
        /\ RLe(Dist2(shapes[i].center, shapes[i].anchor),
               RMul(shapes[i].radius, shapes[i].radius))

C4_Witness ==
  /\ positive
  /\ op.name = "scale"
  /\ op.k = Half
  /\ steps = 2
  /\ shapes[op.i].kind = "Bubble"
  /\ Dist2(shapes[op.i].center, shapes[op.i].anchor)
       = RMul(shapes[op.i].radius, shapes[op.i].radius)

\* C8: getTotalFrameRect returns the box whose left and bottom edges are the
\* minimum over the shapes of pos - size / 2, whose right and top edges are
\* the maximum of pos + size / 2 and whose position is the center of that
\* box, whatever the order of the shapes in the collection.
C8_TotalFrameIsUnion ==
  op.name = "getTotalFrameRect" =>
    /\ frame.width = RSub(Right, Left)
    /\ frame.height = RSub(Top, Bottom)
    /\ frame.pos = point_t(RDiv(RAdd(Left, Right), Two), RDiv(RAdd(Bottom, Top), Two))
    /\ \A perm \in Permutations(1..Len(shapes)) :
         getTotalFrameRect([i \in 1..Len(shapes) |-> shapes[perm[i]]]) = frame

C8_Witness ==
  /\ op.name = "getTotalFrameRect"
  /\ Len(shapes) = 2
  /\ steps = 2
  /\ getFrameRect(shapes[1]) # frame
  /\ getFrameRect(shapes[2]) # frame

\* C9: for every variant and every k > 0 the area after scale(k) is k * k
\* times the area before the call, after any earlier moves and scales.
C9_ScaleMultipliesAreaByKSquared ==
  [][(op'.name = "scale" /\ RLt(Zero, op'.k))
       => /\ getArea(shapes'[op'.i]).rat
               = RMul(RMul(op'.k, op'.k), getArea(shapes[op'.i]).rat)
          /\ getArea(shapes'[op'.i]).pi
               = RMul(RMul(op'.k, op'.k), getArea(shapes[op'.i]).pi)]_vars

C9_Witness ==
  /\ op.name = "scale"
  /\ op.k = Half
  /\ steps = 2
  /\ ~positive
  /\ shapes[op.i].kind = "Polygon"

----------------------------------------------------------------------------
(* The ownership of a Polygon's vertex buffer (specification SpecPoly).    *)
(* heap[a] is the array new point_t[n] returned at address a: whether it   *)
(* is still allocated, and its content.  Addresses are never reused, and 0 *)
(* is nullptr.  polys[o] is a Polygon object: whether it is alive (between *)
(* its constructor and its destructor) and its fields verts, count and     *)
(* center.  A null or dangling verts that a loop of the code dereferences  *)
(* is undefined behaviour: the run ends, crashed.                          *)

Dead == [alive |-> FALSE, verts |-> 0, count |-> 0, center |-> NoPoint]

\* new point_t[n]: the content is not initialized (filled with a filler here)
new_array(h, n) == Append(h, [allocated |-> TRUE, data |-> [i \in 1..n |-> NoPoint]])

\* delete [] a: nothing for nullptr
delete_array(h, a) == IF a = 0 THEN h ELSE [h EXCEPT ![a].allocated = FALSE]

\* delete [] of an array that was deleted before
DoubleDelete(h, a) == a # 0 /\ ~h[a].allocated

\* a loop over verts[0 .. count - 1] that has no array to read or write
BadAccess(h, p) == p.count > 0 /\ (p.verts = 0 \/ ~h[p.verts].allocated)

\* the vertex sequence a Polygon holds
Verts(ps, h, o) == IF ps[o].verts = 0 THEN <<>> ELSE h[ps[o].verts].data

\* the Polygon object as the shape its methods work on
AsShape(h, p) == Shape("Polygon", Zero, Zero, p.center, h[p.verts].data, Zero, NoPoint)

\* Polygon(point_t * points, size_t size): the member initializers allocate
\* the array before the body checks count; a throwing constructor runs no
\* destructor
Polygon_ctor(h, points) ==
  LET a == Len(h) + 1
      h1 == new_array(h, Len(points))
  IN IF Polygon_throws(points)
     THEN [heap |-> h1, obj |-> Dead, threw |-> TRUE]
     ELSE [heap |-> [h1 EXCEPT ![a].data = [i \in 1..Len(points) |-> points[i]]],
           obj |-> [alive |-> TRUE, verts |-> a, count |-> Len(points),
                    center |-> Polygon_getCentroid(points)],
           threw |-> FALSE]

\* faulty variant: the copy takes the source's array
Polygon_copy_shallow(h, p) ==
  [heap |-> h,
   obj |-> [alive |-> TRUE, verts |-> p.verts, count |-> p.count, center |-> p.center]]

\* Polygon(const Polygon & p), p.verts readable
Polygon_copy(h, p) ==
  LET a == Len(h) + 1
      h1 == new_array(h, p.count)
  IN [heap |-> [h1 EXCEPT ![a].data = [i \in 1..p.count |-> h[p.verts].data[i]]],
      obj |-> [alive |-> TRUE, verts |-> a, count |-> p.count, center |-> p.center]]

\* operator=(const Polygon & p), this # &p, p.verts readable
Polygon_assign(h, t, p) ==
  LET points == Len(h) + 1
      h1 == new_array(h, p.count)
      h2 == [h1 EXCEPT ![points].data = [i \in 1..p.count |-> h[p.verts].data[i]]]
  IN [heap |-> delete_array(h2, t.verts),
      obj |-> [alive |-> TRUE, verts |-> points, count |-> p.count, center |-> p.center]]

\* Polygon(Polygon && p): only p.verts is reset
Polygon_move_ctor(p) ==
  [obj |-> [alive |-> TRUE, verts |-> p.verts, count |-> p.count, center |-> p.center],
   src |-> [p EXCEPT !.verts = 0]]

\* operator=(Polygon && p), this # &p
Polygon_move_assign(h, t, p) ==
  [heap |-> delete_array(h, t.verts),
   obj |-> [alive |-> TRUE, verts |-> p.verts, count |-> p.count, center |-> p.center],
   src |-> [p EXCEPT !.verts = 0]]

PolygonCtorArgs == { <<Pt(0, 0), Pt(0, 3), Pt(4, 0)>>, <<Pt(0, 0), Pt(1, 1)>> }
PolygonFactors == {R(2)}
Objects == 1..MaxPolys

ShapesIdle ==
  /\ shapes = <<>>
  /\ frame = NoFrame
  /\ positive = TRUE

InitPoly ==
  /\ polys = [o \in Objects |-> Dead]
  /\ heap = <<>>
  /\ crashed = FALSE
  /\ op = NoCall
  /\ steps = 0
  /\ ShapesIdle
  /\ MainIdle

PolyStep ==
  /\ ~crashed
  /\ steps < MaxPolySteps
  /\ steps' = steps + 1
  /\ UNCHANGED <<shapes, frame, positive, mainVars>>

Crash == crashed' = TRUE /\ UNCHANGED <<polys, heap>>

Construct(o, points) ==
  /\ PolyStep
  /\ ~polys[o].alive
  /\ LET r == Polygon_ctor(heap, points)
     IN /\ heap' = r.heap
        /\ polys' = [polys EXCEPT ![o] = r.obj]
        /\ op' = Call("Polygon", o, Len(heap) + 1, Zero, NoPoint, r.threw)
  /\ UNCHANGED crashed

CopyConstruct(o, src) ==
  /\ PolyStep
  /\ ~polys[o].alive
  /\ polys[src].alive
  /\ op' = Call("copyConstruct", o, src, Zero, NoPoint, FALSE)
  /\ IF BadAccess(heap, polys[src])
     THEN Crash
     ELSE LET r == Polygon_copy(heap, polys[src])
          IN /\ heap' = r.heap
             /\ polys' = [polys EXCEPT ![o] = r.obj]
             /\ UNCHANGED crashed

CopyAssign(o, src) ==
  /\ PolyStep
  /\ polys[o].alive
  /\ polys[src].alive
  /\ op' = Call("copyAssign", o, src, Zero, NoPoint, FALSE)
  /\ IF o = src
     THEN UNCHANGED <<polys, heap, crashed>>
     ELSE IF BadAccess(heap, polys[src]) \/ DoubleDelete(heap, polys[o].verts)
     THEN Crash
     ELSE LET r == Polygon_assign(heap, polys[o], polys[src])
          IN /\ heap' = r.heap
             /\ polys' = [polys EXCEPT ![o] = r.obj]
             /\ UNCHANGED crashed

MoveConstruct(o, src) ==
  /\ PolyStep
  /\ ~polys[o].alive
  /\ polys[src].alive
  /\ op' = Call("moveConstruct", o, src, Zero, NoPoint, FALSE)
  /\ LET r == Polygon_move_ctor(polys[src])
     IN polys' = [polys EXCEPT ![o] = r.obj, ![src] = r.src]
  /\ UNCHANGED <<heap, crashed>>

MoveAssign(o, src) ==
  /\ PolyStep
  /\ polys[o].alive
  /\ polys[src].alive
  /\ op' = Call("moveAssign", o, src, Zero, NoPoint, FALSE)
  /\ IF o = src
     THEN UNCHANGED <<polys, heap, crashed>>
     ELSE IF DoubleDelete(heap, polys[o].verts)
     THEN Crash
     ELSE LET r == Polygon_move_assign(heap, polys[o], polys[src])
          IN /\ heap' = r.heap
             /\ polys' = [polys EXCEPT ![o] = r.obj, ![src] = r.src]
             /\ UNCHANGED crashed

\* ~Polygon()
Destroy(o) ==
  /\ PolyStep
  /\ polys[o].alive
  /\ op' = Call("destroy", o, 0, Zero, NoPoint, FALSE)
  /\ IF DoubleDelete(heap, polys[o].verts)
     THEN Crash
     ELSE /\ heap' = delete_array(heap, polys[o].verts)
          /\ polys' = [polys EXCEPT ![o] = Dead]
          /\ UNCHANGED crashed

\* a method that rewrites the vertices; t is the shape it leaves
Mutate(o, call, t) ==
  /\ PolyStep
  /\ polys[o].alive
  /\ op' = call
  /\ IF BadAccess(heap, polys[o])
     THEN Crash
     ELSE /\ heap' = [heap EXCEPT ![polys[o].verts].data = t.verts]
          /\ polys' = [polys EXCEPT ![o].center = t.center]
          /\ UNCHANGED crashed

PolyMoveTo(o, p) ==
  Mutate(o, Call("moveTo", o, 0, Zero, p, FALSE),
         Polygon_move_p(AsShape(heap, polys[o]), p))

PolyMoveBy(o, d) ==
  Mutate(o, Call("moveBy", o, 0, Zero, point_t(d[1], d[2]), FALSE),
         Polygon_move(AsShape(heap, polys[o]), d[1], d[2]))

PolyScale(o, k) ==
  Mutate(o, Call("scale", o, 0, k, NoPoint, FALSE),
         Polygon_scale(AsShape(heap, polys[o]), k))

NextPoly ==
  \/ \E o \in Objects, points \in PolygonCtorArgs : Construct(o, points)
  \/ \E o, src \in Objects : CopyConstruct(o, src)
  \/ \E o, src \in Objects : CopyAssign(o, src)
  \/ \E o, src \in Objects : MoveConstruct(o, src)
  \/ \E o, src \in Objects : MoveAssign(o, src)
  \/ \E o \in Objects : Destroy(o)
  \/ \E o \in Objects, p \in Points : PolyMoveTo(o, p)
  \/ \E o \in Objects, d \in Deltas : PolyMoveBy(o, d)
  \/ \E o \in Objects, k \in PolygonFactors : PolyScale(o, k)

SpecPoly == InitPoly /\ [][NextPoly]_vars

(* Properties of the ownership (specification SpecPoly) *)

\* no two distinct Polygon objects hold the same array
NoSharedBuffer ==
  \A a, b \in Objects :
    (a # b /\ polys[a].alive /\ polys[b].alive /\ polys[a].verts # 0)
      => polys[a].verts # polys[b].verts

\* C6, as claimed: move-constructing or move-assigning a Polygon from a
\* distinct source leaves the destination with the source's former vertex
\* sequence and center and the source with no vertex buffer and a vertex
\* count of 0; move- or copy-assigning a Polygon to itself changes nothing.
C6_AsClaimed ==
  [][/\ (op'.name \in {"moveConstruct", "moveAssign"} /\ op'.i # op'.j /\ ~crashed')
          => /\ Verts(polys', heap', op'.i) = Verts(polys, heap, op'.j)
             /\ polys'[op'.i].center = polys[op'.j].center
             /\ polys'[op'.j].verts = 0
             /\ polys'[op'.j].count = 0
     /\ (op'.name \in {"copyAssign", "moveAssign"} /\ op'.i = op'.j)
          => (polys' = polys /\ heap' = heap)]_vars

\* C7: after any sequence of copy and move constructions and assignments,
\* moves and scales, no two distinct Polygon objects hold the same vertex
\* buffer, and a move or scale of one Polygon changes neither the vertices
\* nor the center of any other.
C7_CopiesShareNoBuffer ==
  [][/\ NoSharedBuffer'
     /\ (op'.name \in {"moveTo", "moveBy", "scale"} /\ ~crashed')
          => \A q \in Objects \ {op'.i} :
               /\ Verts(polys', heap', q) = Verts(polys, heap, q)
               /\ polys'[q].center = polys[q].center]_vars

C7_Witness ==
  /\ op.name = "scale"
  /\ ~crashed
  /\ steps = 3
  /\ \E q \in Objects \ {op.i} :
       /\ polys[q].alive
       /\ polys[q].verts # 0
       /\ polys[op.i].count = polys[q].count
       /\ Verts(polys, heap, op.i) # Verts(polys, heap, q)

\* C10, as claimed: when the construction of a Polygon fails because the
\* vertex count is less than 3, the vertex buffer that construction allocated
\* does not remain allocated.
C10_AsClaimed ==
  (op.name = "Polygon" /\ op.threw) => ~heap[op.j].allocated

----------------------------------------------------------------------------
(* main: the input loop (specification SpecMain).  cin is the stream: its  *)
(* tokens (the text between whitespace), how many were consumed, whether   *)
(* whitespace follows the last token, and failbit and eofbit.  loc holds   *)
(* the locals x, y, k and result; cerr the messages written to std::cerr.  *)

Number(v) == [num |-> TRUE, val |-> v]
Malformed == [num |-> FALSE, val |-> Zero]
Tokens == {Number(Zero), Number(Two), Malformed}

\* std::cin >> v for a double v: what becomes of the stream and of v.
\*  - failbit or eofbit already set: the sentry fails, failbit, v is kept;
\*  - only whitespace is left: eofbit and failbit, v is kept;
\*  - the token is no number: failbit, and 0 is stored in v;
\*  - a number: it is stored, and reading the last token has hit the end of
\*    the stream (eofbit) when no whitespace follows it.
extract(c, v) ==
  IF c.fail \/ c.eof
  THEN [cin |-> [c EXCEPT !.fail = TRUE], val |-> v]
  ELSE IF c.pos = Len(c.tokens)
  THEN [cin |-> [c EXCEPT !.fail = TRUE, !.eof = TRUE], val |-> v]
  ELSE IF ~c.tokens[c.pos + 1].num
  THEN [cin |-> [c EXCEPT !.fail = TRUE], val |-> Zero]
  ELSE [cin |-> [c EXCEPT !.pos = c.pos + 1,
                          !.eof = (c.pos + 1 = Len(c.tokens) /\ ~c.trailing)],
        val |-> c.tokens[c.pos + 1].val]

\* the shapes main constructs
MainShapes ==
  << Rectangle(R(5), R(6), Pt(1, 2)),
     Rectangle(R(10), R(2), Pt(-10, 3)),
     Polygon(<<Pt(0, 0), Pt(1, 0), Pt(1, 1), Pt(0, 1)>>),
     Polygon(<<Pt(0, 0), Pt(4, 1), Pt(5, 4), Pt(5, 8), Pt(4, 10), Pt(3, 8),
               Pt(2, 5), Pt(-1, 1)>>),
     Bubble(R(10), Pt(0, 0), Pt(2, 2)) >>

InitMain ==
  /\ shapes = MainShapes
  /\ op = NoCall
  /\ frame = NoFrame
  /\ positive = TRUE
  /\ steps = 0
  /\ PolyIdle
  /\ \E n \in 0..MaxTokens : \E tokens \in [1..n -> Tokens] : \E trailing \in BOOLEAN :
       cin = [tokens |-> tokens, pos |-> 0, trailing |-> trailing,
              fail |-> FALSE, eof |-> FALSE]
  /\ loc = [x |-> Zero, y |-> Zero, k |-> Zero, result |-> 0]
  /\ cerr = <<>>
  /\ pc = "while"

\* while (std::cin >> x >> y >> k)
ReadTriple ==
  /\ pc = "while"
  /\ LET ex == extract(cin, loc.x)
         ey == extract(ex.cin, loc.y)
         ek == extract(ey.cin, loc.k)
     IN /\ cin' = ek.cin
        /\ loc' = [loc EXCEPT !.x = ex.val, !.y = ey.val, !.k = ek.val]
        /\ pc' = IF ek.cin.fail THEN "check" ELSE "body"
  /\ UNCHANGED <<shapeVars, polyVars, cerr>>

\* the body of the loop
Body ==
  /\ pc = "body"
  /\ IF RLe(loc.k, Zero)
     THEN /\ cerr' = Append(cerr, "k cannot be less than or equal to zero")
          /\ loc' = [loc EXCEPT !.result = 1]
          /\ pc' = "check"
          /\ UNCHANGED shapes
     ELSE /\ shapes' = scaleByPoint(shapes, loc.k, point_t(loc.x, loc.y))
          /\ pc' = "while"
          /\ UNCHANGED <<cerr, loc>>
  /\ UNCHANGED <<op, frame, positive, steps, polyVars, cin>>

\* if (std::cin.fail() && (!std::cin.eof() || k == 0))
Check ==
  /\ pc = "check"
  /\ IF cin.fail /\ (~cin.eof \/ loc.k = Zero)
     THEN /\ cerr' = Append(cerr, "bad input")
          /\ loc' = [loc EXCEPT !.result = 1]
     ELSE UNCHANGED <<cerr, loc>>
  /\ pc' = "delete"
  /\ UNCHANGED <<shapeVars, polyVars, cin>>

\* the shapes are deleted and main returns result
Delete ==
  /\ pc = "delete"
  /\ shapes' = <<>>
  /\ pc' = "done"
  /\ UNCHANGED <<op, frame, positive, steps, polyVars, cin, loc, cerr>>

NextMain == ReadTriple \/ Body \/ Check \/ Delete

SpecMain == InitMain /\ [][NextMain]_vars

(* Properties of main (specification SpecMain) *)

Printed(msg) == \E i \in 1..Len(cerr) : cerr[i] = msg

\* the stream is zero or more complete triples of numbers with k > 0
WellFormed(c) ==
  /\ Len(c.tokens) % 3 = 0
  /\ \A i \in 1..Len(c.tokens) : c.tokens[i].num
  /\ \A i \in 1..Len(c.tokens) : i % 3 = 0 => RLt(Zero, c.tokens[i].val)

\* reading stopped on a token that is no number, or at the end of the stream
\* inside a triple
StoppedOnMalformedOrPartial(c) ==
  \/ c.pos < Len(c.tokens) /\ ~c.tokens[c.pos + 1].num
  \/ c.pos = Len(c.tokens) /\ Len(c.tokens) % 3 # 0

\* C5, as claimed: for a stream of zero or more complete well-formed triples
\* with k > 0 and a clean end (the empty stream included) main prints no
\* "bad input" and returns 0; "bad input" with result 1 is reported only when
\* reading stopped on malformed input or a partial triple.
C5_AsClaimed ==
  pc = "done" =>
    /\ WellFormed(cin) => (loc.result = 0 /\ ~Printed("bad input"))
    /\ Printed("bad input") => (loc.result = 1 /\ StoppedOnMalformedOrPartial(cin))

====
